---- MODULE Spec2Model ----
(***************************************************************************)
(* GameNight: the game suggestion engine (bot/game_suggester.py) over the  *)
(* stored records of data/models.py, with the data-layer operations and    *)
(* command handlers that write the records it reads.                       *)
(*                                                                         *)
(* Time is counted in ticks, TicksPerDay ticks to a day; day 0 is a Monday. *)
(* A string is a sequence of symbols: one-character symbols for digits,     *)
(* "," and " ", and one symbol for each comma-free, space-free word.        *)
(* An optional value (a nullable column, a None argument) is a set of at    *)
(* most one element: {} is None/NULL, {v} is the value v.                   *)
(***************************************************************************)
EXTENDS Integers, Sequences, FiniteSets, TLC

\* ------------------------------------------------------------------ bounds
MaxUserIds == 2
MaxUserGames == 4
MaxExclusions == 1
MaxGameNights == 1
TicksPerDay == 2

\* the user ids and igdb ids the model knows
Users == {1, 2, 3}
Games == {1, 2, 3}

\* ------------------------------------------------------- optional values
None == {}

Some(v) == {v}

IsNone(o) == o = {}

Val(o) == CHOOSE v \in o : TRUE

\* ---------------------------------------------------------------- strings
Digits == {"0", "1", "2", "3", "4", "5", "6", "7", "8", "9"}

DigitVal == [d \in Digits |->
    CASE d = "0" -> 0 [] d = "1" -> 1 [] d = "2" -> 2 [] d = "3" -> 3
      [] d = "4" -> 4 [] d = "5" -> 5 [] d = "6" -> 6 [] d = "7" -> 7
      [] d = "8" -> 8 [] d = "9" -> 9]

Range(s) == {s[i] : i \in DOMAIN s}

\* str.split(','): the fields between the commas; "" splits to [""]
RECURSIVE Split(_)
Split(s) ==
    IF \A i \in DOMAIN s : s[i] # ","
    THEN <<s>>
    ELSE LET i == CHOOSE k \in DOMAIN s :
                     s[k] = "," /\ \A j \in 1..(k-1) : s[j] # ","
         IN <<SubSeq(s, 1, i-1)>> \o Split(SubSeq(s, i+1, Len(s)))

\* ','.join(list)
RECURSIVE Join(_)
Join(l) ==
    IF l = <<>> THEN <<>>
    ELSE IF Len(l) = 1 THEN l[1]
    ELSE l[1] \o <<",">> \o Join(Tail(l))

\* str.strip(): leading and trailing blanks removed
RECURSIVE Strip(_)
Strip(s) ==
    IF s = <<>> THEN s
    ELSE IF s[1] = " " THEN Strip(Tail(s))
    ELSE IF s[Len(s)] = " " THEN Strip(SubSeq(s, 1, Len(s)-1))
    ELSE s

\* str.isdigit(): non-empty and every character a digit
IsDigit(s) == s # <<>> /\ \A i \in DOMAIN s : s[i] \in Digits

\* int(str) accepts surrounding blanks around a run of digits and raises
\* ValueError on anything else
IntParses(s) == IsDigit(Strip(s))

RECURSIVE DigitsValue(_)
DigitsValue(s) ==
    IF s = <<>> THEN 0
    ELSE DigitsValue(SubSeq(s, 1, Len(s)-1)) * 10 + DigitVal[s[Len(s)]]

IntOf(s) == DigitsValue(Strip(s))

\* str(n) for the one-digit numbers the day mapping holds
StrOfDigit(n) == <<CHOOSE d \in Digits : DigitVal[d] = n>>

\* str.lower() on the words the model uses
LowerSym(c) ==
    CASE c = "Monday" -> "monday"
      [] c = "Tuesday" -> "tuesday"
      [] c = "None" -> "none"
      [] OTHER -> c

Lower(s) == [i \in DOMAIN s |-> LowerSym(s[i])]

\* string comparison of digit strings, as sorted() compares them
RECURSIVE StrLess(_, _)
StrLess(a, b) ==
    IF a = <<>> THEN b # <<>>
    ELSE IF b = <<>> THEN FALSE
    ELSE IF a[1] # b[1] THEN DigitVal[a[1]] < DigitVal[b[1]]
    ELSE StrLess(Tail(a), Tail(b))

\* sorted(list(set(l))) for a list of digit strings
RECURSIVE SortedSet(_)
SortedSet(S) ==
    IF S = {} THEN <<>>
    ELSE LET m == CHOOSE x \in S : \A y \in S \ {x} : StrLess(x, y)
         IN <<m>> \o SortedSet(S \ {m})


\* ------------------------------------------------------- stored records
VARIABLES
    group_by_resolves,  \* whether the ORM resolves the column the query groups by
    now,                \* datetime.now(), in ticks
    games,              \* Game rows, by igdb_id
    user_games,         \* UserGame rows
    availability,       \* UserAvailability rows
    exclusions,         \* GameExclusion rows
    game_nights,        \* GameNight rows, by id
    call,               \* the suggest_games call in progress or just returned
    invocations,        \* suggest_games calls that overlap, each with its locals
    poll                \* the weekly availability poll, its responses and its job

vars == <<group_by_resolves, now, games, user_games, availability, exclusions,
          game_nights, call, invocations, poll>>

db == <<games, user_games, availability, exclusions, game_nights>>

\* models.py: the columns the Game model declares
GameFields == {"igdb_id", "steam_appid", "title", "cover_url",
               "multiplayer_info", "tags", "min_players", "max_players",
               "last_played", "release_date", "description", "metacritic"}

GameRow(min_players, max_players, last_played, tags) ==
    [min_players |-> min_players, max_players |-> max_players,
     last_played |-> last_played, tags |-> tags]

UserGameRow(user, game, source) ==
    [user |-> user, game |-> game, source |-> source,
     liked |-> FALSE, disliked |-> FALSE, is_installed |-> FALSE]

\* Python truthiness of a nullable string column or an optional list
Truthy(o) == ~IsNone(o) /\ Val(o) # <<>>

\* ------------------------------------------------- suggest_games: filter
\* datetime.now().weekday(): Monday is 0 and Sunday is 6
today_weekday == (now \div TicksPerDay) % 7

\* [int(d) for d in availability.available_days.split(',')]
AvailableDaysOf(str) == [i \in DOMAIN Split(str) |-> IntOf(Split(str)[i])]

\* int(d) raises ValueError for some field of the stored string
ParseRaises(str) == \E i \in DOMAIN Split(str) : ~IntParses(Split(str)[i])

AvailabilityRows(user_id) == {a \in availability : a.user = user_id}

\* mutant: the weekday test is dropped, any non-empty record keeps the user
KeptWithoutDayTest(user_id) ==
    \A a \in {r \in availability : r.user = user_id} : Truthy(a.available_days)

\* mutant: an empty record is read as "no restriction"
KeptWhenEmpty(user_id) ==
    \A a \in {r \in availability : r.user = user_id} :
        Truthy(a.available_days)
            => (now \div TicksPerDay) % 7
                  \in Range(AvailableDaysOf(Val(a.available_days)))

\* one pass of the loop body for user_id: is it appended?
IsTrulyAvailable(user_id) ==
    IF AvailabilityRows(user_id) = {}
    THEN TRUE
    ELSE LET a == CHOOSE r \in AvailabilityRows(user_id) : TRUE
         IN IF Truthy(a.available_days)
            THEN today_weekday \in Range(AvailableDaysOf(Val(a.available_days)))
            ELSE FALSE

\* the loop raises on the first user whose stored string does not parse
FilterRaises(available_user_ids) ==
    \E i \in DOMAIN available_user_ids :
        \E a \in AvailabilityRows(available_user_ids[i]) :
            Truthy(a.available_days) /\ ParseRaises(Val(a.available_days))

\* mutant: kept users are inserted at the front of the list
RECURSIVE TrulyAvailableReversed(_)
TrulyAvailableReversed(available_user_ids) ==
    IF available_user_ids = <<>> THEN <<>>
    ELSE IF IsTrulyAvailable(Head(available_user_ids))
         THEN TrulyAvailableReversed(Tail(available_user_ids))
              \o <<Head(available_user_ids)>>
         ELSE TrulyAvailableReversed(Tail(available_user_ids))

\* mutant: the list is passed on unfiltered
Unfiltered(available_user_ids) == available_user_ids

RECURSIVE TrulyAvailable(_)
TrulyAvailable(available_user_ids) ==
    IF available_user_ids = <<>> THEN <<>>
    ELSE IF IsTrulyAvailable(Head(available_user_ids))
         THEN <<Head(available_user_ids)>> \o TrulyAvailable(Tail(available_user_ids))
         ELSE TrulyAvailable(Tail(available_user_ids))

\* ------------------------------------- db_manager.get_games_owned_by_users
Owns(user_id, game_id) ==
    \E ug \in user_games : ug.user = user_id /\ ug.game = game_id

\* mutant: the HAVING clause is dropped, any owner among the ids is enough
OwnedByAnyUser(user_ids) ==
    IF user_ids = <<>> THEN {}
    ELSE IF ~group_by_resolves THEN {}
    ELSE {g \in DOMAIN games : \E u \in Range(user_ids) : Owns(u, g)}

\* Game JOIN UserGame WHERE user IN ids GROUP BY game
\* HAVING COUNT(DISTINCT user) = len(ids); the query groups by Game.id, and
\* when that attribute does not resolve the except branch returns []
GamesOwnedByUsers(user_ids) ==
    IF user_ids = <<>> THEN {}
    ELSE IF ~group_by_resolves THEN {}
    ELSE {g \in DOMAIN games :
            Cardinality({u \in Range(user_ids) : Owns(u, g)}) = Len(user_ids)}

\* the orders in which a query without ORDER BY may return a set of rows
Orders(S) ==
    {s \in [1..Cardinality(S) -> S] : \A i, j \in DOMAIN s : s[i] = s[j] => i = j}

\* ------------------------------------------- suggest_games: exclusions
IsExcludedForAnyUser(game_id, available_user_ids) ==
    \E i \in DOMAIN available_user_ids :
        \E e \in exclusions : e.user = available_user_ids[i] /\ e.game = game_id

RECURSIVE FilteredGames(_, _)
FilteredGames(common_games_data, available_user_ids) ==
    IF common_games_data = <<>> THEN <<>>
    ELSE IF IsExcludedForAnyUser(Head(common_games_data), available_user_ids)
         THEN FilteredGames(Tail(common_games_data), available_user_ids)
         ELSE <<Head(common_games_data)>>
              \o FilteredGames(Tail(common_games_data), available_user_ids)

\* ---------------------------------------------- suggest_games: scoring
\* mutant: the good-match test excludes the two ends of the range
GroupSizeScoreOpenRange(game, group_size) ==
    IF IsNone(group_size) THEN 0
    ELSE LET gs == Val(group_size)
         IN IF ~IsNone(game.min_players) /\ ~IsNone(game.max_players)
            THEN IF Val(game.min_players) < gs /\ gs < Val(game.max_players)
                 THEN 10
                 ELSE IF Val(game.min_players) <= gs + 2
                         /\ Val(game.max_players) >= gs - 2
                      THEN 5
                      ELSE 0
            ELSE IF ~IsNone(game.min_players) /\ gs >= Val(game.min_players)
                 THEN 3
            ELSE IF ~IsNone(game.max_players) /\ gs <= Val(game.max_players)
                 THEN 3
            ELSE 0

\* mutant: a game at the lower end of its range is scored as a near fit
GroupSizeScoreAboveMin(game, group_size) ==
    IF IsNone(group_size) THEN 0
    ELSE LET gs == Val(group_size)
         IN IF ~IsNone(game.min_players) /\ ~IsNone(game.max_players)
            THEN IF Val(game.min_players) < gs /\ gs <= Val(game.max_players)
                 THEN 10
                 ELSE IF Val(game.min_players) <= gs + 2
                         /\ Val(game.max_players) >= gs - 2
                      THEN 5
                      ELSE 0
            ELSE IF ~IsNone(game.min_players) /\ gs >= Val(game.min_players)
                 THEN 3
            ELSE IF ~IsNone(game.max_players) /\ gs <= Val(game.max_players)
                 THEN 3
            ELSE 0

\* score based on group size match
GroupSizeScore(game, group_size) ==
    IF IsNone(group_size) THEN 0
    ELSE LET gs == Val(group_size)
         IN IF ~IsNone(game.min_players) /\ ~IsNone(game.max_players)
            THEN IF Val(game.min_players) <= gs /\ gs <= Val(game.max_players)
                 THEN 10
                 ELSE IF Val(game.min_players) <= gs + 2
                         /\ Val(game.max_players) >= gs - 2
                      THEN 5
                      ELSE 0
            ELSE IF ~IsNone(game.min_players) /\ gs >= Val(game.min_players)
                 THEN 3
            ELSE IF ~IsNone(game.max_players) /\ gs <= Val(game.max_players)
                 THEN 3
            ELSE 0

\* timedelta.days of datetime.now() - last_played (floored, also when negative)
DaysSince(last_played) == (now - last_played) \div TicksPerDay

Min(a, b) == IF a < b THEN a ELSE b

\* mutant: the signs are swapped, recent plays are rewarded and old ones lose
RecencyScoreSwapped(game) ==
    IF IsNone(game.last_played) THEN 0
    ELSE LET days == DaysSince(Val(game.last_played))
         IN (IF days < 1 THEN 10 ELSE IF days < 7 THEN 5 ELSE 0)
            - (IF days \div 30 < 10 THEN days \div 30 ELSE 10)

\* mutant: the age bonus is an else branch of the recency penalty
RecencyScoreExclusive(game) ==
    IF IsNone(game.last_played) THEN 0
    ELSE LET days == DaysSince(Val(game.last_played))
         IN IF days < 1 THEN -10
            ELSE IF days < 7 THEN -5
            ELSE IF days \div 30 < 10 THEN days \div 30 + 1 ELSE 10

\* score based on time since last played
RecencyScore(game) ==
    IF IsNone(game.last_played) THEN 0
    ELSE LET days == DaysSince(Val(game.last_played))
         IN (IF days < 1 THEN -10 ELSE IF days < 7 THEN -5 ELSE 0)
            + Min(days \div 30, 10)

\* score based on preferred tags: one pass of the loop per requested tag
RECURSIVE TagLoop(_, _)
TagLoop(preferred_tags, game_tags) ==
    IF preferred_tags = <<>> THEN 0
    ELSE (IF Head(preferred_tags) \in Range(game_tags) THEN 50 ELSE 0)
         + TagLoop(Tail(preferred_tags), game_tags)

\* mutant: the loop stops at the first requested tag the game carries
TagScoreFirstMatch(game, preferred_tags) ==
    IF Truthy(preferred_tags) /\ Truthy(game.tags)
    THEN IF TagLoop(Val(preferred_tags), Split(Val(game.tags))) > 0
         THEN 50 ELSE 0
    ELSE 0

TagScore(game, preferred_tags) ==
    IF Truthy(preferred_tags) /\ Truthy(game.tags)
    THEN TagLoop(Val(preferred_tags), Split(Val(game.tags)))
    ELSE 0

\* UserGame.get_or_none(user=..., game=...): the rows it may return
UserGameEntries(user_id, game_id) ==
    {ug \in user_games : ug.user = user_id /\ ug.game = game_id}

\* the (user, game) pairs with more than one row, and the ways the single-row
\* lookup may settle each of them
AmbiguousPairs ==
    {p \in Users \X Games : Cardinality(UserGameEntries(p[1], p[2])) > 1}

Picks ==
    {f \in [AmbiguousPairs -> user_games] :
        \A p \in AmbiguousPairs : f[p] \in UserGameEntries(p[1], p[2])}

\* mutant: the disliked flag is tested first
EntryScoreDislikeFirst(user_game_entry) ==
    (IF user_game_entry.disliked THEN -20
     ELSE IF user_game_entry.liked THEN 20 ELSE 0)
    + (IF user_game_entry.is_installed THEN 15 ELSE 0)

\* mutant: the liked and disliked flags are not read
EntryScoreInstalledOnly(user_game_entry) ==
    IF user_game_entry.is_installed THEN 15 ELSE 0

EntryScore(user_game_entry) ==
    (IF user_game_entry.liked THEN 20
     ELSE IF user_game_entry.disliked THEN -20 ELSE 0)
    + (IF user_game_entry.is_installed THEN 15 ELSE 0)

\* mutant: only the users who passed the availability filter are visited
RECURSIVE PreferenceScoreKept(_, _, _)
PreferenceScoreKept(game_id, available_user_ids, pick) ==
    IF available_user_ids = <<>> THEN 0
    ELSE LET user_id == Head(available_user_ids)
             rows == UserGameEntries(user_id, game_id)
         IN (IF rows = {} \/ ~IsTrulyAvailable(user_id) THEN 0
             ELSE EntryScore(CHOOSE ug \in rows : TRUE))
            + PreferenceScoreKept(game_id, Tail(available_user_ids), pick)

\* score based on liked/disliked/installed status, summed over the caller's list
RECURSIVE PreferenceScore(_, _, _)
PreferenceScore(game_id, available_user_ids, pick) ==
    IF available_user_ids = <<>> THEN 0
    ELSE LET user_id == Head(available_user_ids)
             rows == UserGameEntries(user_id, game_id)
         IN (IF rows = {} THEN 0
             ELSE IF <<user_id, game_id>> \in DOMAIN pick
                  THEN EntryScore(pick[<<user_id, game_id>>])
                  ELSE EntryScore(CHOOSE ug \in rows : TRUE))
            + PreferenceScore(game_id, Tail(available_user_ids), pick)

\* GameNight rows with scheduled_time > now - timedelta(days=30)
RecentGameNights ==
    {n \in DOMAIN game_nights :
        game_nights[n].scheduled_time > now - 30 * TicksPerDay}

\* mutant: the penalty is applied once, however many nights the game won
RepetitionScoreOnce(game_id) ==
    IF \E n \in RecentGameNights :
          ~IsNone(game_nights[n].selected_game)
          /\ Val(game_nights[n].selected_game) = game_id
    THEN -50 ELSE 0

\* penalty for games that have won recently
RepetitionScore(game_id) ==
    (-50) * Cardinality({n \in RecentGameNights :
                ~IsNone(game_nights[n].selected_game)
                /\ Val(game_nights[n].selected_game) = game_id})

ScoredGame(game_id, available_user_ids, group_size, preferred_tags, pick) ==
    LET size == GroupSizeScore(games[game_id], group_size)
        recency == RecencyScore(games[game_id])
        tag == TagScore(games[game_id], preferred_tags)
        pref == PreferenceScore(game_id, available_user_ids, pick)
        rep == RepetitionScore(game_id)
    IN [game |-> game_id,
        size |-> size, recency |-> recency, tag |-> tag, pref |-> pref,
        rep |-> rep,
        score |-> size + recency + tag + pref + rep]

\* mutant: a game is placed ahead of the games it ties with
InsertBeforeTies(sorted, x) ==
    LET k == Cardinality({i \in DOMAIN sorted : sorted[i].score > x.score})
    IN SubSeq(sorted, 1, k) \o <<x>> \o SubSeq(sorted, k + 1, Len(sorted))

\* list.sort(key=score, reverse=True): stable, equal scores keep their order
InsertByScore(sorted, x) ==
    LET k == Cardinality({i \in DOMAIN sorted : sorted[i].score >= x.score})
    IN SubSeq(sorted, 1, k) \o <<x>> \o SubSeq(sorted, k + 1, Len(sorted))

\* mutant: reverse=True is dropped, the list is sorted ascending
RECURSIVE SortByScoreAsc(_)
SortByScoreAsc(scored_games) ==
    IF scored_games = <<>> THEN <<>>
    ELSE LET rest == SortByScoreAsc(SubSeq(scored_games, 1, Len(scored_games) - 1))
             x == scored_games[Len(scored_games)]
             k == Cardinality({i \in DOMAIN rest : rest[i].score <= x.score})
         IN SubSeq(rest, 1, k) \o <<x>> \o SubSeq(rest, k + 1, Len(rest))

RECURSIVE SortByScoreDesc(_)
SortByScoreDesc(scored_games) ==
    IF scored_games = <<>> THEN <<>>
    ELSE InsertByScore(
            SortByScoreDesc(SubSeq(scored_games, 1, Len(scored_games) - 1)),
            scored_games[Len(scored_games)])

\* ----------------------------------------------------- suggest_games
Idle ==
    [pc |-> "idle", available_user_ids |-> <<>>, group_size |-> None,
     preferred_tags |-> None, truly_available_user_ids |-> <<>>,
     common_games_data |-> <<>>, filtered_games |-> <<>>,
     scored_games |-> <<>>, result |-> <<>>, failed_lookup |-> None]

Raised(available_user_ids, group_size, preferred_tags) ==
    [Idle EXCEPT !.pc = "raised",
                 !.available_user_ids = available_user_ids,
                 !.group_size = group_size,
                 !.preferred_tags = preferred_tags]

\* the two early returns: nobody available today, or no common game
ReturnedEmpty(available_user_ids, group_size, preferred_tags, truly, common) ==
    [Idle EXCEPT !.pc = "returned",
                 !.available_user_ids = available_user_ids,
                 !.group_size = group_size,
                 !.preferred_tags = preferred_tags,
                 !.truly_available_user_ids = truly,
                 !.common_games_data = common]

\* mutant: with tags requested, games carrying none of them are dropped
ReturnedTaggedOnly(available_user_ids, group_size, preferred_tags, truly, common, pick) ==
    LET wanted(g) == ~Truthy(preferred_tags)
                        \/ TagScore(games[g], preferred_tags) > 0
        filtered == SelectSeq(FilteredGames(common, available_user_ids), wanted)
        scored == SortByScoreDesc(
            [i \in DOMAIN filtered |->
                ScoredGame(filtered[i], available_user_ids, group_size,
                           preferred_tags, pick)])
    IN [pc |-> "returned",
        available_user_ids |-> available_user_ids,
        group_size |-> group_size,
        preferred_tags |-> preferred_tags,
        truly_available_user_ids |-> truly,
        common_games_data |-> common,
        filtered_games |-> filtered,
        scored_games |-> scored,
        result |-> [i \in DOMAIN scored |-> scored[i].game],
        failed_lookup |-> None]

Returned(available_user_ids, group_size, preferred_tags, truly, common, pick) ==
    LET filtered == FilteredGames(common, available_user_ids)
        scored == SortByScoreDesc(
            [i \in DOMAIN filtered |->
                ScoredGame(filtered[i], available_user_ids, group_size,
                           preferred_tags, pick)])
    IN [pc |-> "returned",
        available_user_ids |-> available_user_ids,
        group_size |-> group_size,
        preferred_tags |-> preferred_tags,
        truly_available_user_ids |-> truly,
        common_games_data |-> common,
        filtered_games |-> filtered,
        scored_games |-> scored,
        result |-> [i \in DOMAIN scored |-> scored[i].game],
        failed_lookup |-> None]

\* mutant: the call stamps every game as played before it answers
SuggestGamesMarksPlayed(available_user_ids, group_size, preferred_tags) ==
    /\ call.pc = "idle"
    /\ call' = ReturnedEmpty(available_user_ids, group_size, preferred_tags,
                             <<>>, <<>>)
    /\ games' = [g \in DOMAIN games |->
                    [games[g] EXCEPT !.last_played = Some(now)]]
    /\ UNCHANGED <<group_by_resolves, now, user_games, availability,
                   exclusions, game_nights, invocations, poll>>

\* one call of suggest_games, from entry to its return or its exception
SuggestGames(available_user_ids, group_size, preferred_tags) ==
    /\ call.pc = "idle"
    /\ IF FilterRaises(available_user_ids)
       THEN call' = Raised(available_user_ids, group_size, preferred_tags)
       ELSE LET truly == TrulyAvailable(available_user_ids)
            IN IF truly = <<>>
               THEN call' = ReturnedEmpty(available_user_ids, group_size,
                                          preferred_tags, truly, <<>>)
               ELSE \E common \in Orders(GamesOwnedByUsers(truly)) :
                      IF common = <<>>
                      THEN call' = ReturnedEmpty(available_user_ids, group_size,
                                                 preferred_tags, truly, common)
                      ELSE \E pick \in Picks :
                             call' = Returned(available_user_ids, group_size,
                                              preferred_tags, truly, common, pick)
    /\ UNCHANGED <<group_by_resolves, now, db, invocations, poll>>

\* the reads suggest_games issues itself, outside db_manager's try blocks
Lookups == {"availability", "exclusion", "preference", "history"}

\* does a call with these ids get as far as issuing the lookup?
LookupReached(available_user_ids, lookup) ==
    LET truly == TrulyAvailable(available_user_ids)
        common == GamesOwnedByUsers(truly)
        kept == {g \in common : ~IsExcludedForAnyUser(g, available_user_ids)}
    IN IF lookup = "availability" THEN available_user_ids # <<>>
       ELSE /\ ~FilterRaises(available_user_ids)
            /\ truly # <<>>
            /\ common # {}
            /\ lookup # "exclusion" => kept # {}

\* one call during which the database raises (say OperationalError) on one
\* of those reads: only UserAvailability.DoesNotExist is caught, so the
\* exception leaves suggest_games
SuggestGamesLookupFails(available_user_ids, group_size, preferred_tags, lookup) ==
    /\ call.pc = "idle"
    /\ LookupReached(available_user_ids, lookup)
    /\ call' = [Raised(available_user_ids, group_size, preferred_tags)
                  EXCEPT !.failed_lookup = Some(lookup)]
    /\ UNCHANGED <<group_by_resolves, now, db, invocations, poll>>

\* ------------------------------------- suggest_games, phase by phase
\* two calls in flight at once, each holding its own local variables
Invocations == {1, 2}

NoInvocations == [i \in Invocations |-> Idle]

OthersUntouched == UNCHANGED <<group_by_resolves, now, db, call, poll>>

\* the call is entered and its arguments bound
Enter(i, available_user_ids, group_size, preferred_tags) ==
    /\ invocations[i].pc = "idle"
    /\ invocations' = [invocations EXCEPT ![i] =
          [Idle EXCEPT !.pc = "filter",
                       !.available_user_ids = available_user_ids,
                       !.group_size = group_size,
                       !.preferred_tags = preferred_tags]]
    /\ OthersUntouched

\* lines 28-43: the availability loop and the first early return
FilterStep(i) ==
    LET me == invocations[i]
        truly == TrulyAvailable(me.available_user_ids)
    IN /\ me.pc = "filter"
       /\ invocations' = [invocations EXCEPT ![i] =
             IF FilterRaises(me.available_user_ids)
             THEN [me EXCEPT !.pc = "raised"]
             ELSE [me EXCEPT !.truly_available_user_ids = truly,
                             !.pc = IF truly = <<>> THEN "returned" ELSE "query"]]
       /\ OthersUntouched

\* lines 45-49: the common-ownership query and the second early return
QueryStep(i) ==
    LET me == invocations[i]
    IN /\ me.pc = "query"
       /\ \E common \in Orders(GamesOwnedByUsers(me.truly_available_user_ids)) :
             invocations' = [invocations EXCEPT ![i] =
                [me EXCEPT !.common_games_data = common,
                           !.pc = IF common = <<>> THEN "returned" ELSE "exclude"]]
       /\ OthersUntouched

\* lines 50-59: the exclusion filter
ExcludeStep(i) ==
    LET me == invocations[i]
    IN /\ me.pc = "exclude"
       /\ invocations' = [invocations EXCEPT ![i] =
             [me EXCEPT !.filtered_games =
                           FilteredGames(me.common_games_data,
                                         me.available_user_ids),
                        !.pc = "score"]]
       /\ OthersUntouched

\* the scored_games list the loop of lines 62-115 builds
ScoredList(me, pick) ==
    [k \in DOMAIN me.filtered_games |->
        ScoredGame(me.filtered_games[k], me.available_user_ids,
                   me.group_size, me.preferred_tags, pick)]

\* mutant: scored_games is one list shared by every call in flight
ScoreStepShared(i) ==
    /\ invocations[i].pc = "score"
    /\ \E pick \in Picks :
          invocations' = [j \in Invocations |->
             IF j = i
             THEN [invocations[j] EXCEPT
                      !.scored_games = ScoredList(invocations[i], pick),
                      !.pc = "sort"]
             ELSE [invocations[j] EXCEPT
                      !.scored_games = ScoredList(invocations[i], pick)]]
    /\ UNCHANGED <<group_by_resolves, now, db, call, poll>>

\* lines 62-115: the scoring loop
ScoreStep(i) ==
    LET me == invocations[i]
    IN /\ me.pc = "score"
       /\ \E pick \in Picks :
             invocations' = [invocations EXCEPT ![i] =
                [me EXCEPT !.scored_games = ScoredList(me, pick),
                           !.pc = "sort"]]
       /\ OthersUntouched

\* lines 117-120: the sort and the return
SortStep(i) ==
    LET me == invocations[i]
        scored == SortByScoreDesc(me.scored_games)
    IN /\ me.pc = "sort"
       /\ invocations' = [invocations EXCEPT ![i] =
             [me EXCEPT !.scored_games = scored,
                        !.result = [k \in DOMAIN scored |-> scored[k].game],
                        !.pc = "returned"]]
       /\ OthersUntouched

\* the caller takes the result (or the exception) and the call is over
CallEnds ==
    /\ call.pc # "idle"
    /\ call' = Idle
    /\ UNCHANGED <<group_by_resolves, now, db, invocations, poll>>

\* ------------------------------------------- db_manager.add_user_game
\* str.upper() on the platform names the callers pass
Upper(source) ==
    CASE source = "pc" -> "PC"
      [] source = "steam" -> "STEAM"
      [] OTHER -> source

\* UserGame.get_or_create(user, game, source.upper())
AddUserGame(user_id, game_id, source) ==
    /\ call.pc = "idle"
    /\ user_games' =
         IF \E ug \in user_games :
               ug.user = user_id /\ ug.game = game_id /\ ug.source = Upper(source)
         THEN user_games
         ELSE user_games \cup {UserGameRow(user_id, game_id, Upper(source))}
    /\ Cardinality(user_games') <= MaxUserGames
    /\ UNCHANGED <<group_by_resolves, now, games, availability, exclusions,
                   game_nights, call, invocations, poll>>

\* ---------------------------------------- db_manager.mark_game_played
MarkGamePlayed(game_id) ==
    /\ call.pc = "idle"
    /\ game_id \in DOMAIN games
    /\ games' = [games EXCEPT ![game_id].last_played = Some(now)]
    /\ UNCHANGED <<group_by_resolves, now, user_games, availability, exclusions,
                   game_nights, call, invocations, poll>>

\* ---------------------------------- db_manager.set_user_game_installed
\* UPDATE ... WHERE user = user_id AND game = game_id: every matching row
SetUserGameInstalled(user_id, game_id, is_installed) ==
    /\ call.pc = "idle"
    /\ user_games' =
         {IF ug.user = user_id /\ ug.game = game_id
          THEN [ug EXCEPT !.is_installed = is_installed]
          ELSE ug : ug \in user_games}
    /\ UNCHANGED <<group_by_resolves, now, games, availability, exclusions,
                   game_nights, call, invocations, poll>>

\* ------------------------ db_manager.set_user_game_like_dislike_status
SetUserGameLikeDislikeStatus(user_id, game_id, liked, disliked) ==
    /\ call.pc = "idle"
    /\ user_games' =
         {IF ug.user = user_id /\ ug.game = game_id
          THEN [ug EXCEPT !.liked = liked, !.disliked = disliked]
          ELSE ug : ug \in user_games}
    /\ UNCHANGED <<group_by_resolves, now, games, availability, exclusions,
                   game_nights, call, invocations, poll>>

\* ------------------------------------------------ web_api: the toggles
\* mutant: the like toggle leaves the disliked flag as it finds it
LikeGameApiKeepsDisliked(user_id, game_id) ==
    \E ownership \in UserGameEntries(user_id, game_id) :
        SetUserGameLikeDislikeStatus(user_id, game_id, ~ownership.liked,
                                     ownership.disliked)

\* like_game_api: 404 without an ownership row; otherwise liked is toggled
\* from the row get_user_game_ownership returns and disliked is cleared
LikeGameApi(user_id, game_id) ==
    \E ownership \in UserGameEntries(user_id, game_id) :
        SetUserGameLikeDislikeStatus(user_id, game_id, ~ownership.liked, FALSE)

\* dislike_game_api: disliked is toggled and liked is cleared
DislikeGameApi(user_id, game_id) ==
    \E ownership \in UserGameEntries(user_id, game_id) :
        SetUserGameLikeDislikeStatus(user_id, game_id, FALSE,
                                     ~ownership.disliked)

\* toggle_installed_api
ToggleInstalledApi(user_id, game_id) ==
    \E ownership \in UserGameEntries(user_id, game_id) :
        SetUserGameInstalled(user_id, game_id, ~ownership.is_installed)

\* ------------------------------------- db_manager.add_game_night_event
\* GameNight.create(...): a new row, selected_game left NULL
AddGameNightEvent(scheduled_time) ==
    /\ call.pc = "idle"
    /\ game_nights' = Append(game_nights,
          [scheduled_time |-> scheduled_time, selected_game |-> None])
    /\ UNCHANGED <<group_by_resolves, now, games, user_games, availability,
                   exclusions, call, invocations, poll>>

\* -------------------------- db_manager.update_game_night_selected_game
UpdateGameNightSelectedGame(game_night_id, game_id) ==
    /\ call.pc = "idle"
    /\ game_nights' =
         [n \in DOMAIN game_nights |->
            IF n = game_night_id
            THEN [game_nights[n] EXCEPT !.selected_game = Some(game_id)]
            ELSE game_nights[n]]
    /\ UNCHANGED <<group_by_resolves, now, games, user_games, availability,
                   exclusions, call, invocations, poll>>

\* -------------------------------- utility_commands.set_weekly_availability
DayNames == {"monday", "tuesday", "wednesday", "thursday", "friday",
             "saturday", "sunday"}

day_mapping == [d \in DayNames |->
    CASE d = "monday" -> 0 [] d = "tuesday" -> 1 [] d = "wednesday" -> 2
      [] d = "thursday" -> 3 [] d = "friday" -> 4 [] d = "saturday" -> 5
      [] d = "sunday" -> 6]

\* [d.strip().lower() for d in available_days.split(',')]
InputDays(available_days) ==
    [i \in DOMAIN Split(available_days) |->
        Lower(Strip(Split(available_days)[i]))]

\* mutant: any run of digits is accepted as a day number
ProcessedDayAnyNumber(day) ==
    IF IsDigit(day)
    THEN Some(day)
    ELSE IF Len(day) = 1 /\ day[1] \in DayNames
         THEN Some(StrOfDigit(day_mapping[day[1]]))
         ELSE None

\* one pass of the loop: the string appended for day, or None for "Invalid day"
ProcessedDay(day) ==
    IF IsDigit(day) /\ 0 <= IntOf(day) /\ IntOf(day) <= 6
    THEN Some(day)
    ELSE IF Len(day) = 1 /\ day[1] \in DayNames
         THEN Some(StrOfDigit(day_mapping[day[1]]))
         ELSE None

\* db_manager.set_user_weekly_availability: get_or_create the row, store
\* "" for "none" and the string otherwise
SetUserWeeklyAvailability(user_id, available_days) ==
    {a \in availability : a.user # user_id}
    \cup {[user |-> user_id,
           available_days |->
               Some(IF Lower(available_days) = <<"none">>
                    THEN <<>> ELSE available_days)]}

\* db_manager.set_user_weekly_availability called as it stands: the string
\* is stored without being looked at
StoreWeeklyAvailability(user_id, available_days) ==
    /\ call.pc = "idle"
    /\ availability' = SetUserWeeklyAvailability(user_id, available_days)
    /\ UNCHANGED <<group_by_resolves, now, games, user_games, exclusions,
                   game_nights, call, invocations, poll>>

SetWeeklyAvailability(user_id, available_days) ==
    LET input_days == InputDays(available_days)
    IN /\ call.pc = "idle"
       /\ IF <<"none">> \in Range(input_days)
          THEN availability' = SetUserWeeklyAvailability(user_id, <<>>)
          ELSE IF \E i \in DOMAIN input_days : IsNone(ProcessedDay(input_days[i]))
               THEN availability' = availability
               ELSE availability' = SetUserWeeklyAvailability(user_id,
                      Join(SortedSet({Val(ProcessedDay(input_days[i])) :
                                          i \in DOMAIN input_days})))
       /\ UNCHANGED <<group_by_resolves, now, games, user_games, exclusions,
                      game_nights, call, invocations, poll>>

\* ------------------------------- automation_tasks: the availability poll
\* the time slots a poll offers, by index
Slots == {0, 1}

\* what becomes of the poll message when the closing job disables its buttons:
\* the edit goes through, the message is gone (discord.NotFound, caught), or
\* the fetch or the edit raises something else and the job ends there
MessageOutcomes == {"edited", "not_found", "raised"}

\* no Poll row yet; afterwards the row's status and expected participants,
\* its PollResponse rows, the closing jobs the scheduler holds, whether the
\* message's buttons are disabled, and the game suggestion polls started
NoPoll ==
    [status |-> "none", expected_participants |-> {}, responses |-> {},
     jobs |-> 0, disabled |-> FALSE, suggestion_polls |-> 0]

\* ",".join(map(str, sorted(selected_indices)))
SelectedOptionsStr(selected_indices) ==
    Join(SortedSet({StrOfDigit(i) : i \in selected_indices}))

\* [int(opt) for opt in response.selected_options.split(',')], skipped when
\* the string is empty
SelectedOptionsOf(response) ==
    IF response.selected_options = <<>> THEN {}
    ELSE {IntOf(opt) : opt \in Range(Split(response.selected_options))}

\* suggested_slots[i]: the slots lie on the days after the poll is sent
SlotTime(slot_index) == now + (slot_index + 1) * TicksPerDay

\* start_weekly_availability_poll: the Poll row is created open, expecting
\* every known user, and the closing job is scheduled for its end time
StartWeeklyAvailabilityPoll(all_active_users) ==
    /\ poll.status = "none"
    /\ poll' = [NoPoll EXCEPT !.status = "open",
                              !.expected_participants = all_active_users,
                              !.jobs = 1]
    /\ UNCHANGED <<group_by_resolves, now, db, call, invocations>>

\* slot_votes[slot_index] over the poll's responses
SlotVotes(responses, slot_index) ==
    Cardinality({r \in responses : slot_index \in SelectedOptionsOf(r)})

\* the slots max(slot_votes, key=slot_votes.get) can return
MostPopularSlots(responses) ==
    {k \in Slots :
        /\ SlotVotes(responses, k) > 0
        /\ \A j \in Slots : SlotVotes(responses, j) <= SlotVotes(responses, k)}

\* close_availability_poll_job on the poll p: the status is set to closed,
\* the buttons are disabled, and if any slot has a vote a game night is
\* created for the most popular one and a game suggestion poll is started
CloseAvailabilityPollJob(p, message, slot) ==
    IF message = "raised" \/ MostPopularSlots(p.responses) = {}
    THEN /\ poll' = [p EXCEPT !.status = "closed",
                              !.disabled = (message = "edited") \/ @]
         /\ game_nights' = game_nights
    ELSE /\ slot \in MostPopularSlots(p.responses)
         /\ game_nights' = Append(game_nights,
               [scheduled_time |-> SlotTime(slot), selected_game |-> None])
         /\ poll' = [p EXCEPT !.status = "closed",
                              !.disabled = (message = "edited") \/ @,
                              !.suggestion_polls = @ + 1]

\* on_button_click with custom_id "submit_availability": the response is
\* recorded, and when every expected response is in the poll is closed early
SubmitAvailability(user_id, selected_indices, message, slot) ==
    /\ call.pc = "idle"
    /\ poll.status # "none"
    /\ ~poll.disabled
    /\ LET recorded ==
               [poll EXCEPT !.responses =
                   {r \in @ : r.user # user_id}
                   \cup {[user |-> user_id,
                          selected_options |->
                              SelectedOptionsStr(selected_indices)]}]
           expected_count == Cardinality(recorded.expected_participants)
           responded_count == Cardinality(recorded.responses)
       IN IF expected_count > 0 /\ responded_count >= expected_count
          THEN CloseAvailabilityPollJob(recorded, message, slot)
          ELSE /\ poll' = recorded
               /\ game_nights' = game_nights
    /\ UNCHANGED <<group_by_resolves, now, games, user_games, availability,
                   exclusions, call, invocations>>

\* the scheduler runs the closing job at the poll's end time
ClosingJobFires(message, slot) ==
    /\ call.pc = "idle"
    /\ poll.jobs > 0
    /\ CloseAvailabilityPollJob([poll EXCEPT !.jobs = @ - 1], message, slot)
    /\ UNCHANGED <<group_by_resolves, now, games, user_games, availability,
                   exclusions, call, invocations>>

\* ------------------------------------------------------ specification
\* day 400 is a Tuesday (400 = 57 * 7 + 1), day 401 a Wednesday
Tuesday == 400 * TicksPerDay + 1

NowValues == {Tuesday, 401 * TicksPerDay}

IdLists(U, n) == UNION {[1..k -> U] : k \in 0..n}

ExclusionRows(U, G) == {[user |-> u, game |-> g] : u \in U, g \in G}

AvailabilityInputs ==
    {<<"None">>, <<"4", ",", " ", "2", ",", "0">>, <<"2", ",", "x">>}

SourceInputs == {"pc"}

NoPlayerData == GameRow(None, None, None, None)

\* Spec: two users and three games; libraries and weekly availability are
\* written by the handlers, the exclusion table is drawn at the start
PairUsers == {1, 2}

Init ==
    /\ group_by_resolves \in (IF "id" \in GameFields THEN {TRUE} ELSE BOOLEAN)
    /\ now \in NowValues
    /\ games = [g \in Games |-> NoPlayerData]
    /\ user_games = {}
    /\ availability = {}
    /\ exclusions \in {E \in SUBSET ExclusionRows(PairUsers, Games) :
                          Cardinality(E) <= MaxExclusions}
    /\ game_nights = <<>>
    /\ call = Idle
    /\ invocations = NoInvocations
    /\ poll = NoPoll

Next ==
    \/ \E u \in PairUsers, g \in Games, s \in SourceInputs : AddUserGame(u, g, s)
    \/ \E u \in PairUsers, a \in AvailabilityInputs : SetWeeklyAvailability(u, a)
    \/ \E ids \in IdLists(PairUsers, MaxUserIds) : SuggestGames(ids, None, None)
    \/ CallEnds

Spec == Init /\ [][Next]_vars

\* SpecGroup: three users and two games, no exclusions
GroupGames == {1, 2}

InitGroup ==
    /\ group_by_resolves \in (IF "id" \in GameFields THEN {TRUE} ELSE BOOLEAN)
    /\ now \in NowValues
    /\ games = [g \in Games |-> NoPlayerData]
    /\ user_games = {}
    /\ availability = {}
    /\ exclusions = {}
    /\ game_nights = <<>>
    /\ call = Idle
    /\ invocations = NoInvocations
    /\ poll = NoPoll

NextGroup ==
    \/ \E u \in Users, g \in GroupGames, s \in SourceInputs : AddUserGame(u, g, s)
    \/ \E u \in Users, a \in AvailabilityInputs : SetWeeklyAvailability(u, a)
    \/ \E ids \in IdLists(Users, MaxUserIds + 1) : SuggestGames(ids, None, None)
    \/ CallEnds

SpecGroup == InitGroup /\ [][NextGroup]_vars

\* SpecScore: users 1, 2 and 3 own games 1 and 2, whose player counts, last
\* play and tags are drawn at the start; the calls vary group size and tags
Day == TicksPerDay

PlayerCounts ==
    {<<Some(2), Some(4)>>, <<Some(3), Some(5)>>, <<Some(3), None>>,
     <<None, Some(4)>>, <<Some(5), Some(2)>>}

\* times since the last play: today, yesterday, within the week, a week,
\* 11 days, around one month, two months, around the ten-month cap
PlayedAgo ==
    {0, Day - 1, Day, 7 * Day - 1, 7 * Day, 11 * Day, 30 * Day - 1, 30 * Day,
     60 * Day, 300 * Day - 1, 300 * Day, 330 * Day}

StrategyCoop == <<"strategy", ",", "coop">>

TagStrings == {<<>>, StrategyCoop, <<"action", ",", "rpg">>}

GameProfiles ==
    {NoPlayerData}
    \cup {GameRow(pc[1], pc[2], None, None) : pc \in PlayerCounts}
    \cup {GameRow(None, None, Some(Tuesday - a), None) : a \in PlayedAgo}
    \cup {GameRow(None, None, None, Some(t)) : t \in TagStrings}
    \cup {GameRow(Some(2), Some(4), None, Some(StrategyCoop)),
          GameRow(Some(3), Some(5), Some(Tuesday - 11 * Day), None),
          GameRow(Some(2), Some(4), Some(Tuesday - 60 * Day), Some(StrategyCoop))}

ScoreGames == {1, 2}

GroupSizes == {None} \cup {Some(n) : n \in 0..7}

TagRequests ==
    {None, Some(<<>>), Some(Split(<<"strategy">>)), Some(Split(StrategyCoop)),
     Some(Split(<<"coop", ",", "coop">>)), Some(Split(<<"puzzle">>))}

ScoreIdLists == {<<1, 2, 3>>, <<2>>}

InitScore ==
    /\ group_by_resolves \in (IF "id" \in GameFields THEN {TRUE} ELSE BOOLEAN)
    /\ now = Tuesday
    /\ games \in {f \in [Games -> GameProfiles] :
                     \A g \in Games \ ScoreGames : f[g] = NoPlayerData}
    /\ user_games = {UserGameRow(u, g, "PC") : u \in Users, g \in ScoreGames}
    /\ availability = {}
    /\ exclusions = {}
    /\ game_nights = <<>>
    /\ call = Idle
    /\ invocations = NoInvocations
    /\ poll = NoPoll

NextScore ==
    \/ \E g \in ScoreGames : MarkGamePlayed(g)
    \/ \E ids \in ScoreIdLists, gs \in GroupSizes, tags \in TagRequests :
          SuggestGames(ids, gs, tags)
    \/ CallEnds

SpecScore == InitScore /\ [][NextScore]_vars

\* SpecRank: users 1 and 2 own games 1 and 2; likes, dislikes, installs and
\* game nights are written by the handlers before the calls
RankProfiles == {NoPlayerData, GameRow(Some(2), Some(4), None, Some(StrategyCoop))}

\* a night more than 30 days back, one just under 30 days back, yesterday's,
\* and tomorrow's
ScheduledTimes ==
    {Tuesday - 31 * Day, Tuesday - 30 * Day + 1, Tuesday - Day, Tuesday + Day}

\* the nights SpecRank schedules: one outside the window, one inside
RankTimes == {Tuesday - 31 * Day, Tuesday - Day}

\* web_api toggles one flag and clears the other
LikeDislikeInputs == {<<TRUE, FALSE>>, <<FALSE, FALSE>>, <<FALSE, TRUE>>}

\* what set_weekly_availability stores for "Mon, Wed, Fri"
MonWedFri == <<"0", ",", "2", ",", "4">>

InitRank ==
    /\ group_by_resolves \in (IF "id" \in GameFields THEN {TRUE} ELSE BOOLEAN)
    /\ now = Tuesday
    /\ games \in {f \in [Games -> RankProfiles] :
                     \A g \in Games \ {1} : f[g] = NoPlayerData}
    /\ user_games = {UserGameRow(u, g, "PC") : u \in PairUsers, g \in ScoreGames}
    /\ availability \in {{}, {[user |-> 1, available_days |-> Some(MonWedFri)]}}
    /\ exclusions = {}
    /\ game_nights = <<>>
    /\ call = Idle
    /\ invocations = NoInvocations
    /\ poll = NoPoll

NextRank ==
    \/ \E g \in ScoreGames, i \in BOOLEAN : SetUserGameInstalled(1, g, i)
    \/ \E u \in PairUsers, g \in ScoreGames, ld \in LikeDislikeInputs :
          SetUserGameLikeDislikeStatus(u, g, ld[1], ld[2])
    \/ \E t \in RankTimes :
          Len(game_nights) < MaxGameNights /\ AddGameNightEvent(t)
    \/ \E n \in 1..MaxGameNights, g \in ScoreGames :
          UpdateGameNightSelectedGame(n, g)
    \/ \E gs \in {None, Some(3)}, tags \in {None, Some(Split(StrategyCoop))} :
          SuggestGames(<<1, 2>>, gs, tags)
    \/ CallEnds

SpecRank == InitRank /\ [][NextRank]_vars

\* SpecNights: users 1 and 2 own the twin games 1 and 2; game nights are
\* scheduled and their winners recorded before the calls
InitNights ==
    /\ group_by_resolves \in (IF "id" \in GameFields THEN {TRUE} ELSE BOOLEAN)
    /\ now = Tuesday
    /\ games = [g \in Games |-> NoPlayerData]
    /\ user_games = {UserGameRow(u, g, "PC") : u \in PairUsers, g \in ScoreGames}
    /\ availability = {}
    /\ exclusions = {}
    /\ game_nights = <<>>
    /\ call = Idle
    /\ invocations = NoInvocations
    /\ poll = NoPoll

NextNights ==
    \/ \E t \in ScheduledTimes :
          Len(game_nights) < MaxGameNights + 1 /\ AddGameNightEvent(t)
    \/ \E n \in 1..(MaxGameNights + 1), g \in ScoreGames :
          UpdateGameNightSelectedGame(n, g)
    \/ SuggestGames(<<1, 2>>, None, None)
    \/ CallEnds

SpecNights == InitNights /\ [][NextNights]_vars

\* SpecFaults: users 1 and 2 own games 1 and 2; any of the call's own reads
\* may fail
InitFaults ==
    /\ group_by_resolves \in (IF "id" \in GameFields THEN {TRUE} ELSE BOOLEAN)
    /\ now = Tuesday
    /\ games = [g \in Games |-> NoPlayerData]
    /\ user_games = {UserGameRow(u, g, "PC") : u \in PairUsers, g \in ScoreGames}
    /\ availability \in {{}, {[user |-> 1, available_days |-> Some(MonWedFri)]}}
    /\ exclusions \in {E \in SUBSET ExclusionRows(PairUsers, ScoreGames) :
                          Cardinality(E) <= MaxExclusions}
    /\ game_nights = <<>>
    /\ call = Idle
    /\ invocations = NoInvocations
    /\ poll = NoPoll

NextFaults ==
    \/ \E g \in ScoreGames, ld \in LikeDislikeInputs :
          SetUserGameLikeDislikeStatus(1, g, ld[1], ld[2])
    \/ \E ids \in IdLists(PairUsers, MaxUserIds) : SuggestGames(ids, None, None)
    \/ \E ids \in IdLists(PairUsers, MaxUserIds), l \in Lookups :
          SuggestGamesLookupFails(ids, None, None, l)
    \/ CallEnds

SpecFaults == InitFaults /\ [][NextFaults]_vars

\* SpecStore: availability strings reach the table through
\* db_manager.set_user_weekly_availability itself
InitStore ==
    /\ group_by_resolves \in (IF "id" \in GameFields THEN {TRUE} ELSE BOOLEAN)
    /\ now \in NowValues
    /\ games = [g \in Games |-> NoPlayerData]
    /\ user_games = {}
    /\ availability = {}
    /\ exclusions = {}
    /\ game_nights = <<>>
    /\ call = Idle
    /\ invocations = NoInvocations
    /\ poll = NoPoll

NextStore ==
    \/ \E u \in PairUsers, g \in GroupGames, s \in SourceInputs :
          AddUserGame(u, g, s)
    \/ \E u \in PairUsers, a \in AvailabilityInputs :
          StoreWeeklyAvailability(u, a)
    \/ \E ids \in IdLists(PairUsers, MaxUserIds) : SuggestGames(ids, None, None)
    \/ CallEnds

SpecStore == InitStore /\ [][NextStore]_vars

\* SpecPair: two calls overlap over stored data nobody changes; users 1 and
\* 2 own the tagged game 1 and the plain game 2
InitPair ==
    /\ group_by_resolves \in (IF "id" \in GameFields THEN {TRUE} ELSE BOOLEAN)
    /\ now = Tuesday
    /\ games = [g \in Games |->
                  IF g = 1 THEN GameRow(Some(2), Some(4), None, Some(StrategyCoop))
                  ELSE NoPlayerData]
    /\ user_games = {UserGameRow(u, g, "PC") : u \in PairUsers, g \in ScoreGames}
    /\ availability \in {{}, {[user |-> 1, available_days |-> Some(MonWedFri)]}}
    /\ exclusions = {}
    /\ game_nights = <<>>
    /\ call = Idle
    /\ invocations = NoInvocations
    /\ poll = NoPoll

NextPair ==
    \/ \E i \in Invocations, ids \in {<<1, 2>>, <<2>>}, gs \in {None, Some(3)} :
          Enter(i, ids, gs, None)
    \/ \E i \in Invocations : FilterStep(i)
    \/ \E i \in Invocations : QueryStep(i)
    \/ \E i \in Invocations : ExcludeStep(i)
    \/ \E i \in Invocations : ScoreStep(i)
    \/ \E i \in Invocations : SortStep(i)

SpecPair == InitPair /\ [][NextPair]_vars

\* SpecFlags: set_user_game_like_dislike_status is called with any pair of
\* flags for user 1's rows
InitFlags ==
    /\ group_by_resolves \in (IF "id" \in GameFields THEN {TRUE} ELSE BOOLEAN)
    /\ now = Tuesday
    /\ games = [g \in Games |-> NoPlayerData]
    /\ user_games = {UserGameRow(u, g, "PC") : u \in PairUsers, g \in ScoreGames}
    /\ availability = {}
    /\ exclusions = {}
    /\ game_nights = <<>>
    /\ call = Idle
    /\ invocations = NoInvocations
    /\ poll = NoPoll

NextFlags ==
    \/ \E g \in ScoreGames, liked \in BOOLEAN, disliked \in BOOLEAN :
          SetUserGameLikeDislikeStatus(1, g, liked, disliked)
    \/ \E g \in ScoreGames, i \in BOOLEAN : SetUserGameInstalled(1, g, i)
    \/ SuggestGames(<<1, 2>>, None, None)
    \/ CallEnds

SpecFlags == InitFlags /\ [][NextFlags]_vars

\* SpecPoll: one weekly availability poll, from its start to its closing
ExpectedParticipants == {{1}, {1, 2}}

InitPoll ==
    /\ group_by_resolves \in (IF "id" \in GameFields THEN {TRUE} ELSE BOOLEAN)
    /\ now = Tuesday
    /\ games = [g \in Games |-> NoPlayerData]
    /\ user_games = {}
    /\ availability = {}
    /\ exclusions = {}
    /\ game_nights = <<>>
    /\ call = Idle
    /\ invocations = NoInvocations
    /\ poll = NoPoll

NextPoll ==
    \/ \E all_active_users \in ExpectedParticipants :
          StartWeeklyAvailabilityPoll(all_active_users)
    \/ \E u \in Users, selected \in SUBSET Slots,
          message \in MessageOutcomes, slot \in Slots :
          /\ Len(game_nights) <= MaxGameNights
          /\ SubmitAvailability(u, selected, message, slot)
    \/ \E message \in MessageOutcomes, slot \in Slots :
          /\ Len(game_nights) <= MaxGameNights
          /\ ClosingJobFires(message, slot)

SpecPoll == InitPoll /\ [][NextPoll]_vars

\* SpecSources: user 1's games are added from two platforms, and the like,
\* dislike and installed flags are written between the additions
TwoSources == {"pc", "steam"}

InitSources ==
    /\ group_by_resolves \in (IF "id" \in GameFields THEN {TRUE} ELSE BOOLEAN)
    /\ now = Tuesday
    /\ games = [g \in Games |-> NoPlayerData]
    /\ user_games = {}
    /\ availability = {}
    /\ exclusions = {}
    /\ game_nights = <<>>
    /\ call = Idle
    /\ invocations = NoInvocations
    /\ poll = NoPoll

NextSources ==
    \/ \E g \in ScoreGames, s \in TwoSources : AddUserGame(1, g, s)
    \/ \E g \in ScoreGames, liked \in BOOLEAN, disliked \in BOOLEAN :
          SetUserGameLikeDislikeStatus(1, g, liked, disliked)
    \/ \E g \in ScoreGames, i \in BOOLEAN : SetUserGameInstalled(1, g, i)
    \/ SuggestGames(<<1>>, None, None)
    \/ CallEnds

SpecSources == InitSources /\ [][NextSources]_vars

\* SpecWeb: the web API's toggle requests, between additions of games from
\* two platforms
InitWeb ==
    /\ group_by_resolves \in (IF "id" \in GameFields THEN {TRUE} ELSE BOOLEAN)
    /\ now = Tuesday
    /\ games = [g \in Games |-> NoPlayerData]
    /\ user_games = {}
    /\ availability = {}
    /\ exclusions = {}
    /\ game_nights = <<>>
    /\ call = Idle
    /\ invocations = NoInvocations
    /\ poll = NoPoll

NextWeb ==
    \/ \E u \in PairUsers, g \in ScoreGames, s \in TwoSources :
          AddUserGame(u, g, s)
    \/ \E u \in PairUsers, g \in ScoreGames : LikeGameApi(u, g)
    \/ \E u \in PairUsers, g \in ScoreGames : DislikeGameApi(u, g)
    \/ \E u \in PairUsers, g \in ScoreGames : ToggleInstalledApi(u, g)

SpecWeb == InitWeb /\ [][NextWeb]_vars

\* SpecDays: the command is given "None", day numbers, day names, numbers
\* out of range, "06", the empty string and empty fields
CommandInputs ==
    {<<"None">>, <<"4", ",", " ", "2", ",", "0">>, <<"2", ",", "x">>,
     <<"Monday", ",", "3">>, <<"Tuesday">>, <<"7">>, <<"0", "6">>, <<>>,
     <<"1", ",", ",", "2">>, <<"1", "2">>}

InitDays ==
    /\ group_by_resolves \in (IF "id" \in GameFields THEN {TRUE} ELSE BOOLEAN)
    /\ now \in NowValues
    /\ games = [g \in Games |-> NoPlayerData]
    /\ user_games = {UserGameRow(u, g, "PC") : u \in PairUsers, g \in ScoreGames}
    /\ availability = {}
    /\ exclusions = {}
    /\ game_nights = <<>>
    /\ call = Idle
    /\ invocations = NoInvocations
    /\ poll = NoPoll

NextDays ==
    \/ \E u \in PairUsers, a \in CommandInputs : SetWeeklyAvailability(u, a)
    \/ SuggestGames(<<1, 2>>, None, None)
    \/ CallEnds

SpecDays == InitDays /\ [][NextDays]_vars

\* ------------------------------------------------------------ claims
\* the weekdays a stored availability row names
DaysOfRecord(a) ==
    IF Truthy(a.available_days)
    THEN Range(AvailableDaysOf(Val(a.available_days)))
    ELSE {}

\* u has no availability row, or its row names today
KeptToday(u) ==
    AvailabilityRows(u) = {}
    \/ \E a \in AvailabilityRows(u) : today_weekday \in DaysOfRecord(a)

Library(u) == {g \in Games : Owns(u, g)}

Owners(g) == {u \in Users : Owns(u, g)}

ExcludedBy(u, g) == [user |-> u, game |-> g] \in exclusions

CallUsers == Range(call.available_user_ids)

ResultGames == Range(call.result)

\* C1: every game in the returned list is owned by every user of the list
\* who passed the availability filter (intersection, never union)
C1_CommonOwnership ==
    call.pc = "returned" =>
        \A g \in ResultGames :
            \A u \in CallUsers : KeptToday(u) => Owns(u, g)

\* A owns {1, 2}, B owns {2, 3}: the call for [A, B] returns game 2 alone
C1_Witness ==
    /\ call.pc = "returned"
    /\ call.available_user_ids = <<1, 2>>
    /\ KeptToday(1) /\ KeptToday(2)
    /\ Library(1) = {1, 2} /\ Library(2) = {2, 3}
    /\ call.result = <<2>>

\* C2: no returned game is excluded by any user of the caller's list, users
\* the filter removed included, and a common game nobody excluded is still
\* returned when every listed user is available (Scenario B)
C2_ExclusionVeto ==
    call.pc = "returned" =>
        /\ \A g \in ResultGames : \A u \in CallUsers : ~ExcludedBy(u, g)
        /\ \A g \in Games :
              (/\ CallUsers # {}
               /\ \A u \in CallUsers : KeptToday(u) /\ Owns(u, g)
               /\ \A u \in CallUsers : ~ExcludedBy(u, g)
               /\ \E h \in Games, u \in CallUsers : ExcludedBy(u, h))
              => g \in ResultGames

\* C3: when some listed user passes the filter, the result is exactly the
\* games owned by every filtered user and excluded by no listed user, each once
C3_FullCommonSet ==
    (call.pc = "returned" /\ \E u \in CallUsers : KeptToday(u)) =>
        /\ ResultGames =
              {g \in Games :
                  /\ \A u \in CallUsers : KeptToday(u) => Owns(u, g)
                  /\ \A u \in CallUsers : ~ExcludedBy(u, g)}
        /\ \A i, j \in DOMAIN call.result :
              call.result[i] = call.result[j] => i = j

\* u has an availability row and the row does not name today
BusyToday(u) ==
    /\ AvailabilityRows(u) # {}
    /\ \A a \in AvailabilityRows(u) : today_weekday \notin DaysOfRecord(a)

\* C5: for the empty list, and for a list whose users all have a record
\* that does not name today, the call returns the empty list and does not raise
C5_NobodyAvailable ==
    (call.pc # "idle" /\ \A u \in CallUsers : BusyToday(u)) =>
        call.pc = "returned" /\ call.result = <<>>

\* both listed users are busy today although they share a game the query finds
C5_Witness ==
    /\ call.pc = "returned"
    /\ call.available_user_ids = <<1, 2>>
    /\ BusyToday(1) /\ BusyToday(2)
    /\ Library(1) \cap Library(2) # {}
    /\ group_by_resolves
    /\ call.result = <<>>

\* C6: the filter keeps a listed user exactly when the user has no record or
\* the record names today; a record that is present but empty always excludes
C6_FilterRule ==
    call.pc = "returned" =>
        /\ \A u \in Users :
              u \in Range(call.truly_available_user_ids)
                  <=> (u \in CallUsers /\ KeptToday(u))
        /\ \A u \in CallUsers :
              (\E a \in AvailabilityRows(u) : a.available_days = Some(<<>>))
                  => u \notin Range(call.truly_available_user_ids)

\* user 1 has no record, user 2's record names today, user 3's is empty
C6_Witness ==
    /\ call.pc = "returned"
    /\ call.available_user_ids = <<1, 2, 3>>
    /\ AvailabilityRows(1) = {}
    /\ \E a \in AvailabilityRows(2) : today_weekday \in DaysOfRecord(a)
    /\ \E a \in AvailabilityRows(3) : a.available_days = Some(<<>>)
    /\ call.truly_available_user_ids = <<1, 2>>

\* Scenario C: user 1's record is "0,2,4" and today is a Tuesday
ScenarioC ==
    /\ today_weekday = 1
    /\ \E a \in AvailabilityRows(1) :
          a.available_days = Some(<<"0", ",", "2", ",", "4">>)

SameButPlayers(g, h) ==
    /\ games[g].last_played = games[h].last_played
    /\ games[g].tags = games[h].tags

SameButTags(g, h) ==
    /\ games[g].min_players = games[h].min_players
    /\ games[g].max_players = games[h].max_players
    /\ games[g].last_played = games[h].last_played

Scored == call.scored_games

\* C4: the returned list is ordered by non-increasing total score, the total
\* being the sum of the five contributions
C4_SortedByScore ==
    call.pc = "returned" =>
        /\ \A i \in DOMAIN Scored :
              /\ call.result[i] = Scored[i].game
              /\ Scored[i].score = Scored[i].size + Scored[i].recency
                    + Scored[i].tag + Scored[i].pref + Scored[i].rep
        /\ \A i, j \in DOMAIN Scored :
              i < j => Scored[i].score >= Scored[j].score

\* the query returned the lower-scoring game first and the sort swapped them
C4_Witness ==
    /\ call.pc = "returned"
    /\ Len(call.result) = 2
    /\ Scored[1].score > Scored[2].score
    /\ Scored[1].pref # 0
    /\ Scored[2].rep # 0
    /\ Scored[1].size # 0
    /\ call.common_games_data = <<call.result[2], call.result[1]>>

\* the group-size contribution as the claim states it
C8_Expected(game, group_size) ==
    LET hasMin == ~IsNone(game.min_players)
        hasMax == ~IsNone(game.max_players)
        mn == Val(game.min_players)
        mx == Val(game.max_players)
        gs == Val(group_size)
    IN IF IsNone(group_size) THEN 0
       ELSE IF hasMin /\ hasMax /\ mn <= gs /\ gs <= mx THEN 10
       ELSE IF hasMin /\ hasMax /\ mn - 2 <= gs /\ gs <= mx + 2 THEN 5
       ELSE IF hasMin /\ ~hasMax /\ gs >= mn THEN 3
       ELSE IF hasMax /\ ~hasMin /\ gs <= mx THEN 3
       ELSE 0

\* C8: the group-size contribution is 10 inside [min, max], 5 inside the
\* range widened by 2, 3 for a one-sided fit, 0 otherwise and without a group
\* size; a 2-4 player game at size 3 scores 10 above its twin with no counts
C8_GroupSizeFit ==
    call.pc = "returned" =>
        /\ \A i \in DOMAIN Scored :
              Scored[i].size = C8_Expected(games[Scored[i].game], call.group_size)
        /\ \A i, j \in DOMAIN Scored :
              (/\ call.group_size = Some(3)
               /\ games[Scored[i].game].min_players = Some(2)
               /\ games[Scored[i].game].max_players = Some(4)
               /\ games[Scored[j].game].min_players = None
               /\ games[Scored[j].game].max_players = None
               /\ SameButPlayers(Scored[i].game, Scored[j].game))
              => Scored[i].score = Scored[j].score + 10

\* a 2-4 player game and its twin without player counts, at group size 3
C8_Witness ==
    /\ call.pc = "returned"
    /\ call.group_size = Some(3)
    /\ Len(Scored) = 2
    /\ games[Scored[1].game].min_players = Some(2)
    /\ games[Scored[1].game].max_players = Some(4)
    /\ games[Scored[2].game] = NoPlayerData
    /\ SameButPlayers(Scored[1].game, Scored[2].game)
    /\ Scored[1].score = Scored[2].score + 10

\* whole days elapsed since t
WholeDaysSince(t) ==
    CHOOSE d \in 0..(now \div TicksPerDay + 1) :
        d * TicksPerDay <= now - t /\ now - t < (d + 1) * TicksPerDay

\* the recency contribution as the claim states it
C9_Expected(game) ==
    IF IsNone(game.last_played) THEN 0
    ELSE LET d == WholeDaysSince(Val(game.last_played))
         IN (IF d < 1 THEN -10 ELSE IF 1 <= d /\ d < 7 THEN -5 ELSE 0)
            + (IF d \div 30 <= 10 THEN d \div 30 ELSE 10)

\* C9: with d whole days since last_played, the recency contribution is the
\* penalty (-10 under a day, -5 under a week) plus min(d div 30, 10), and 0
\* for a game never played
C9_RecencyDecay ==
    call.pc = "returned" =>
        \A i \in DOMAIN Scored :
            Scored[i].recency = C9_Expected(games[Scored[i].game])

\* a game played ten months ago (bonus at the cap) beside one played today
C9_Witness ==
    /\ call.pc = "returned"
    /\ \E i, j \in DOMAIN Scored :
          /\ games[Scored[i].game].last_played = Some(now - 330 * Day)
          /\ Scored[i].recency = 10
          /\ games[Scored[j].game].last_played = Some(now)
          /\ Scored[j].recency = -10

\* the tags a game row carries
TagSet(game) == IF Truthy(game.tags) THEN Range(Split(Val(game.tags))) ELSE {}

\* the tag contribution as the claim states it
C10_Expected(game, preferred_tags) ==
    IF Truthy(preferred_tags) /\ Truthy(game.tags)
    THEN 50 * Cardinality({i \in DOMAIN Val(preferred_tags) :
                              Val(preferred_tags)[i] \in TagSet(game)})
    ELSE 0

\* C10: the tag contribution is 50 for each requested tag the game carries,
\* uncapped, and 0 without requested tags or game tags; two requested tags
\* both present lift the score by 100, and a game carrying a requested tag
\* ranks above its twin that carries none
C10_TagBonus ==
    call.pc = "returned" =>
        /\ \A i \in DOMAIN Scored :
              /\ Scored[i].tag = C10_Expected(games[Scored[i].game],
                                              call.preferred_tags)
              /\ (/\ Truthy(call.preferred_tags)
                  /\ Len(Val(call.preferred_tags)) = 2
                  /\ Range(Val(call.preferred_tags)) \subseteq
                        TagSet(games[Scored[i].game]))
                 => Scored[i].score =
                       ScoredGame(Scored[i].game, call.available_user_ids,
                                  call.group_size, None, <<>>).score + 100
        /\ \A i, j \in DOMAIN Scored :
              (/\ Truthy(call.preferred_tags)
               /\ Range(Val(call.preferred_tags))
                     \cap TagSet(games[Scored[i].game]) # {}
               /\ Range(Val(call.preferred_tags))
                     \cap TagSet(games[Scored[j].game]) = {}
               /\ SameButTags(Scored[i].game, Scored[j].game))
              => i < j

\* two requested tags, both on the game the query returned last: it scores
\* 100 and moves ahead of its twin without tags
C10_Witness ==
    /\ call.pc = "returned"
    /\ call.preferred_tags = Some(<<<<"strategy">>, <<"coop">>>>)
    /\ Len(Scored) = 2
    /\ games[Scored[1].game].tags = Some(StrategyCoop)
    /\ games[Scored[2].game].tags = None
    /\ SameButTags(Scored[1].game, Scored[2].game)
    /\ Scored[1].tag = 100
    /\ call.common_games_data = <<Scored[2].game, Scored[1].game>>

\* what one listed user adds to a game's score, as the claim states it
C11_UserPart(u, g) ==
    IF \A ug \in user_games : ~(ug.user = u /\ ug.game = g) THEN 0
    ELSE LET r == CHOOSE ug \in user_games : ug.user = u /\ ug.game = g
         IN (IF r.liked THEN 20 ELSE IF r.disliked /\ ~r.liked THEN -20 ELSE 0)
            + (IF r.is_installed THEN 15 ELSE 0)

RECURSIVE C11_Sum(_, _)
C11_Sum(ids, g) ==
    IF ids = <<>> THEN 0 ELSE C11_UserPart(Head(ids), g) + C11_Sum(Tail(ids), g)

\* C11: a game's preference contribution is the sum over every user of the
\* caller's list, filtered out or not, of +20 for liked, -20 for disliked and
\* not liked, +15 for installed, and 0 for a user without an ownership row
C11_PreferenceSum ==
    call.pc = "returned" =>
        \A i \in DOMAIN Scored :
            Scored[i].pref = C11_Sum(call.available_user_ids, Scored[i].game)

\* user 1 is filtered out today, yet its like and install of a game count
\* next to user 2's dislike of it
C11_Witness ==
    /\ call.pc = "returned"
    /\ call.available_user_ids = <<1, 2>>
    /\ call.truly_available_user_ids = <<2>>
    /\ \E i \in DOMAIN Scored :
          /\ \E ug \in user_games :
                /\ ug.user = 1 /\ ug.game = Scored[i].game
                /\ ug.liked /\ ug.is_installed
          /\ \E ug \in user_games :
                ug.user = 2 /\ ug.game = Scored[i].game /\ ug.disliked
          /\ Scored[i].pref = 15

\* the game nights that selected game g
NightsWonBy(g) ==
    {n \in DOMAIN game_nights : game_nights[n].selected_game = Some(g)}

\* a night of the trailing 30 days: scheduled less than 30 days back and not
\* later than now
InTrailingWindow(n) ==
    /\ game_nights[n].scheduled_time > now - 30 * TicksPerDay
    /\ game_nights[n].scheduled_time <= now

TrailingWins(g) == Cardinality({n \in NightsWonBy(g) : InTrailingWindow(n)})

\* C12: every night of the trailing 30 days that selected a game lowers its
\* score by 50, k nights by 50 * k; a game whose k wins all lie in the window
\* scores exactly 50 * k below its twin that never won, and ranks after it
C12_RepetitionPenalty ==
    call.pc = "returned" =>
        /\ \A i \in DOMAIN Scored :
              /\ Scored[i].rep <= (-50) * TrailingWins(Scored[i].game)
              /\ (\A n \in NightsWonBy(Scored[i].game) : InTrailingWindow(n))
                    => Scored[i].rep = (-50) * TrailingWins(Scored[i].game)
        /\ \A i, j \in DOMAIN Scored :
              (/\ TrailingWins(Scored[i].game) >= 1
               /\ \A n \in NightsWonBy(Scored[i].game) : InTrailingWindow(n)
               /\ NightsWonBy(Scored[j].game) = {}
               /\ games[Scored[i].game] = games[Scored[j].game]
               /\ Scored[i].pref = Scored[j].pref)
              => /\ Scored[i].score
                      = Scored[j].score - 50 * TrailingWins(Scored[i].game)
                 /\ j < i

\* game 1 won two nights of the trailing window: it scores 100 below its
\* twin and moves behind it
C12_Witness ==
    /\ call.pc = "returned"
    /\ TrailingWins(1) = 2
    /\ NightsWonBy(2) = {}
    /\ call.common_games_data = <<1, 2>>
    /\ call.result = <<2, 1>>
    /\ Scored[2].score = Scored[1].score - 100

\* C13: a call of suggest_games, whatever its arguments and outcome, leaves
\* every game, ownership, availability, exclusion and game-night row as it was
C13_NoStoredChange ==
    [][(call.pc = "idle" /\ call'.pc # "idle") => db' = db]_vars

\* a call that ranked two games over liked rows, an availability row and a
\* game night with a winner
C13_Witness ==
    /\ call.pc = "returned"
    /\ Len(call.result) = 2
    /\ availability # {}
    /\ \E ug \in user_games : ug.liked
    /\ \E n \in DOMAIN game_nights : ~IsNone(game_nights[n].selected_game)

\* C14: when one of the call's lookups fails, the call still returns a
\* ranked list and nothing propagates to the caller
C14_LookupFailureAbsorbed ==
    (call.pc # "idle" /\ ~IsNone(call.failed_lookup)) => call.pc = "returned"

\* the flags of user u's ownership rows for game g
Marks(u, g) ==
    {[liked |-> ug.liked, disliked |-> ug.disliked,
      is_installed |-> ug.is_installed] :
        ug \in {r \in user_games : r.user = u /\ r.game = g}}

Unmarked(u, g) == \A m \in Marks(u, g) : ~m.liked /\ ~m.disliked

\* games g and h differ in nothing that is scored except user u's mark
SameButMarkOf(u, g, h) ==
    /\ games[g] = games[h]
    /\ NightsWonBy(g) = {} /\ NightsWonBy(h) = {}
    /\ \A v \in CallUsers \ {u} : Marks(v, g) = Marks(v, h)
    /\ {m.is_installed : m \in Marks(u, g)} = {m.is_installed : m \in Marks(u, h)}

\* C15: of two returned games equal in every other scoring factor, the one a
\* listed user marked liked comes strictly before the unmarked one, and the
\* one a listed user marked disliked comes strictly after it
C15_LikedBeforeDisliked ==
    call.pc = "returned" =>
        \A i, j \in DOMAIN call.result : \A u \in CallUsers :
            (/\ SameButMarkOf(u, call.result[i], call.result[j])
             /\ Marks(u, call.result[i]) # {}
             /\ Unmarked(u, call.result[j]))
            => /\ (\A m \in Marks(u, call.result[i]) : m.liked) => i < j
               /\ (\A m \in Marks(u, call.result[i]) : m.disliked) => i > j

\* the query returned the unmarked game first and the game user 1 likes
\* second; the liked one is moved to the front
C15_Witness ==
    /\ call.pc = "returned"
    /\ call.available_user_ids = <<1, 2>>
    /\ Len(call.result) = 2
    /\ SameButMarkOf(1, call.result[1], call.result[2])
    /\ \A m \in Marks(1, call.result[1]) : m.liked
    /\ Unmarked(1, call.result[2])
    /\ call.common_games_data = <<call.result[2], call.result[1]>>

\* two games whose rows differ in nothing but last_played
SameButLastPlayed(g, h) ==
    /\ games[g].min_players = games[h].min_players
    /\ games[g].max_players = games[h].max_players
    /\ games[g].tags = games[h].tags

\* C16: of two otherwise identical games that both have last_played set, the
\* one played longer ago never scores lower, and one played 60 days ago is
\* ranked strictly above one played yesterday
C16_OlderNeverLower ==
    call.pc = "returned" =>
        \A i, j \in DOMAIN Scored :
            LET g == games[Scored[i].game]
                h == games[Scored[j].game]
            IN (/\ ~IsNone(g.last_played) /\ ~IsNone(h.last_played)
                /\ SameButLastPlayed(Scored[i].game, Scored[j].game)
                /\ Val(g.last_played) < Val(h.last_played))
               => /\ Scored[i].score >= Scored[j].score
                  /\ (/\ Val(g.last_played) = now - 60 * Day
                      /\ Val(h.last_played) = now - Day)
                     => i < j

\* the query returned the game played yesterday first; the one played 60
\* days ago overtakes it
C16_Witness ==
    /\ call.pc = "returned"
    /\ Len(Scored) = 2
    /\ games[Scored[1].game].last_played = Some(now - 60 * Day)
    /\ games[Scored[2].game].last_played = Some(now - Day)
    /\ SameButLastPlayed(Scored[1].game, Scored[2].game)
    /\ call.common_games_data = <<Scored[2].game, Scored[1].game>>
    /\ Scored[1].score > Scored[2].score

\* Scenario A: Game A is game 1, Game B is game 2, and the call is for users
\* 1, 2 and 3, group size 3 and the tag "strategy"
ScenarioA ==
    /\ games[1] = GameRow(Some(2), Some(4), None, Some(StrategyCoop))
    /\ games[2] = GameRow(Some(3), Some(5), Some(now - 11 * Day), None)
    /\ \A u \in {1, 2, 3} : KeptToday(u) /\ Owns(u, 1) /\ Owns(u, 2)
    /\ call.available_user_ids = <<1, 2, 3>>
    /\ call.group_size = Some(3)
    /\ call.preferred_tags = Some(<<<<"strategy">>>>)

\* C17: in Scenario A the call returns both games, Game A above Game B
C17_ScenarioA ==
    (call.pc = "returned" /\ ScenarioA) => call.result = <<1, 2>>

\* whenever the Scenario A call does rank games, Game A comes first
C17_RankedAFirst ==
    (call.pc = "returned" /\ ScenarioA /\ call.result # <<>>)
        => call.result = <<1, 2>>

\* the games a call for these ids returns when neither a group size nor tags
\* are given: what the query found for the filtered users, minus exclusions
GamesWithoutHints(ids) ==
    {g \in Range(call.common_games_data) : ~IsExcludedForAnyUser(g, ids)}

\* C18: group_size and preferred_tags reorder the result and never filter
\* it: the set of returned games is the one the same call returns without
\* them, whatever their values
C18_HintsOnlyReorder ==
    call.pc = "returned" =>
        ResultGames = GamesWithoutHints(call.available_user_ids)

\* a game that fits neither the group size nor the requested tag is still
\* returned, behind the game that carries the tag
C18_Witness ==
    /\ call.pc = "returned"
    /\ ~IsNone(call.group_size)
    /\ Truthy(call.preferred_tags)
    /\ Len(Scored) = 2
    /\ Scored[1].tag > 0
    /\ Scored[2].tag = 0 /\ Scored[2].size = 0
    /\ ~IsNone(games[Scored[2].game].min_players)
    /\ ~IsNone(games[Scored[2].game].max_players)

\* a is b with some of its entries left out
RECURSIVE IsSublist(_, _)
IsSublist(a, b) ==
    IF a = <<>> THEN TRUE
    ELSE IF b = <<>> THEN FALSE
    ELSE IF Head(a) = Head(b) /\ IsSublist(Tail(a), Tail(b)) THEN TRUE
    ELSE IsSublist(a, Tail(b))

\* C19: the availability filter's output is a sublist of its input: only ids
\* of the input, in the input's relative order
C19_FilterKeepsOrder ==
    call.pc = "returned" =>
        IsSublist(call.truly_available_user_ids, call.available_user_ids)

\* user 1, in the middle of the list, is busy today; 3 and 2 stay in order
C19_Witness ==
    /\ call.pc = "returned"
    /\ call.available_user_ids = <<3, 1, 2>>
    /\ BusyToday(1)
    /\ call.truly_available_user_ids = <<3, 2>>

\* C20: whatever string a stored availability row holds, the filter
\* completes with a list and the call does not raise
C20_FilterNeverRaises ==
    call.pc # "idle" => call.pc = "returned"

\* the lists a call with these arguments can return when it runs alone
AloneResults(me) ==
    LET truly == TrulyAvailable(me.available_user_ids)
    IN IF truly = <<>> THEN {<<>>}
       ELSE {IF common = <<>> THEN <<>>
             ELSE Returned(me.available_user_ids, me.group_size,
                           me.preferred_tags, truly, common, pick).result :
                common \in Orders(GamesOwnedByUsers(truly)), pick \in Picks}

C21_EachAsAlone ==
    \A i \in Invocations :
        invocations[i].pc = "returned"
            => invocations[i].result \in AloneResults(invocations[i])

C21_OwnLocalsOnly ==
    \A i \in Invocations :
        invocations'[i] # invocations[i]
            => /\ db' = db
               /\ \A j \in Invocations \ {i} : invocations'[j] = invocations[j]

\* C21: two calls interleaved over unchanged stored data each return a list
\* they could return alone, and a step of one call changes neither the
\* stored data nor anything the other call holds
C21_Independent ==
    []C21_EachAsAlone /\ [][C21_OwnLocalsOnly]_vars

\* call 1, for the group of two at size 3, has returned its ranking while
\* call 2, for user 2 alone, is between its scoring loop and its sort
C21_Witness ==
    /\ invocations[1].pc = "returned"
    /\ invocations[1].available_user_ids = <<1, 2>>
    /\ invocations[1].group_size = Some(3)
    /\ invocations[1].result = <<1, 2>>
    /\ invocations[1].common_games_data = <<2, 1>>
    /\ invocations[2].pc = "sort"
    /\ invocations[2].available_user_ids = <<2>>
    /\ invocations[2].scored_games # invocations[1].scored_games

C22_OldNightsIgnored ==
    call.pc = "returned" =>
        \A i \in DOMAIN Scored :
            (\A n \in NightsWonBy(Scored[i].game) :
                game_nights[n].scheduled_time <= now - 30 * TicksPerDay)
            => Scored[i].rep = 0

\* user u's rows for game g are all liked and disliked at once
BothFlags(u, g) ==
    /\ Marks(u, g) # {}
    /\ \A m \in Marks(u, g) : m.liked /\ m.disliked

\* no listed user but u adds anything to game g's preference score
OnlyMarkedBy(u, g) ==
    /\ Cardinality({k \in DOMAIN call.available_user_ids :
                       call.available_user_ids[k] = u}) = 1
    /\ \A v \in CallUsers \ {u} :
          \A m \in Marks(v, g) : ~m.liked /\ ~m.disliked /\ ~m.is_installed

\* C23: a row that is liked and disliked at once counts as liked: its user
\* adds +20, never -20 or 0, and +15 more if the game is installed
C23_BothFlagsCountAsLiked ==
    call.pc = "returned" =>
        \A i \in DOMAIN Scored : \A u \in CallUsers :
            (BothFlags(u, Scored[i].game) /\ OnlyMarkedBy(u, Scored[i].game))
            => Scored[i].pref =
                  20 + (IF \A m \in Marks(u, Scored[i].game) : m.is_installed
                        THEN 15 ELSE 0)

\* user 1's row for the first-ranked game is liked, disliked and installed
C23_Witness ==
    /\ call.pc = "returned"
    /\ Len(Scored) = 2
    /\ BothFlags(1, Scored[1].game)
    /\ OnlyMarkedBy(1, Scored[1].game)
    /\ \A m \in Marks(1, Scored[1].game) : m.is_installed
    /\ Scored[1].pref = 35

\* the place of game g in the list the common-ownership query returned
QueryPlace(g) ==
    CHOOSE k \in DOMAIN call.common_games_data : call.common_games_data[k] = g

\* C24: games with equal total score keep, in the result, the relative order
\* in which the common-ownership query returned them
C24_TiesKeepQueryOrder ==
    call.pc = "returned" =>
        \A i, j \in DOMAIN Scored :
            (i < j /\ Scored[i].score = Scored[j].score)
            => QueryPlace(call.result[i]) < QueryPlace(call.result[j])

\* the query returned game 2 before game 1, both score the same non-zero
\* total, and the result lists game 2 first
C24_Witness ==
    /\ call.pc = "returned"
    /\ call.common_games_data = <<2, 1>>
    /\ call.result = <<2, 1>>
    /\ Scored[1].score = Scored[2].score
    /\ Scored[1].score # 0

\* Scenario A with nothing else on record: no row of a listed user is liked,
\* disliked or installed, and no game night has a selected game
ScenarioAPlain ==
    /\ ScenarioA
    /\ \A u \in CallUsers, g \in ScoreGames :
          \A m \in Marks(u, g) : ~m.liked /\ ~m.disliked /\ ~m.is_installed
    /\ \A n \in DOMAIN game_nights : IsNone(game_nights[n].selected_game)

\* the record the scoring loop built for game g, or no record
ScoredOf(g) == {Scored[i] : i \in {k \in DOMAIN Scored : Scored[k].game = g}}

HasRepeats(ids) == \E i, j \in DOMAIN ids : i # j /\ ids[i] = ids[j]

\* the list with every id kept at its first place only
RECURSIVE WithoutRepeats(_)
WithoutRepeats(ids) ==
    IF ids = <<>> THEN <<>>
    ELSE LET front == WithoutRepeats(SubSeq(ids, 1, Len(ids) - 1))
             last == ids[Len(ids)]
         IN IF last \in Range(front) THEN front ELSE Append(front, last)

\* the lists a call for these arguments can return over the stored data
ResultsFor(ids, group_size, preferred_tags) ==
    LET truly == TrulyAvailable(ids)
    IN IF truly = <<>> THEN {<<>>}
       ELSE {IF common = <<>> THEN <<>>
             ELSE Returned(ids, group_size, preferred_tags, truly, common,
                           pick).result :
                 common \in Orders(GamesOwnedByUsers(truly)), pick \in Picks}

C26_RepeatsReturnNothing ==
    (call.pc = "returned" /\ HasRepeats(call.available_user_ids))
        => call.result = <<>>

RowsAgree == \A u \in Users, g \in Games : Cardinality(Marks(u, g)) <= 1

\* the preference score of each ranked game is the same whichever of a
\* user's rows the single-row lookup returns
LookupIndependent ==
    call.pc = "returned" =>
        \A i \in DOMAIN Scored : \A pick \in Picks :
            PreferenceScore(Scored[i].game, call.available_user_ids, pick)
                = Scored[i].pref

\* C28: after any sequence of add_user_game, set_user_game_like_dislike_status
\* and set_user_game_installed, the rows of one user for one game agree on
\* liked, disliked and is_installed, so the preference score does not depend
\* on the row the lookup returns
C28_RowsOfOnePairAgree == RowsAgree /\ LookupIndependent

\* C28, second half alone
C28_AnyRowSameScore == LookupIndependent

\* C29: whatever like and dislike toggles and ownership additions have
\* happened, no ownership row is liked and disliked at once
C29_NeverBothFlags ==
    \A ug \in user_games : ~(ug.liked /\ ug.disliked)

\* a game was liked and then disliked: its row is disliked and no longer
\* liked, while another row is still liked
C29_Witness ==
    /\ \E ug \in user_games : ug.disliked /\ ~ug.liked
    /\ \E ug \in user_games : ug.liked /\ ~ug.disliked
    /\ \E ug \in user_games : ug.is_installed

\* the string is a comma-separated list of integers, each in 0..6
ListsWeekdays(str) ==
    \A i \in DOMAIN Split(str) :
        /\ IntParses(Split(str)[i])
        /\ IntOf(Split(str)[i]) \in 0..6

\* C30: every available_days value the command has stored is empty or a
\* comma-separated list of integers in 0..6, which the filter parses
C30_StoredDaysParse ==
    \A a \in availability :
        /\ ~IsNone(a.available_days)
        /\ \/ Val(a.available_days) = <<>>
           \/ /\ ListsWeekdays(Val(a.available_days))
              /\ ~ParseRaises(Val(a.available_days))

\* "Monday,3" was stored as "0,3" for user 1 and "06" as it stands for user
\* 2, and a call has read both rows
C30_Witness ==
    /\ call.pc = "returned"
    /\ call.available_user_ids = <<1, 2>>
    /\ \E a \in AvailabilityRows(1) :
          a.available_days = Some(<<"0", ",", "3">>)
    /\ \E a \in AvailabilityRows(2) : a.available_days = Some(<<"0", "6">>)

====
